---- MODULE Spec2Model ----
(***************************************************************************)
(* Model of src/acidosis_detection.py: the per-subject scan of             *)
(* identify_acidosis_episodes (classification, run segmentation, the       *)
(* medication window test) and evaluate_against_diagnosis with the summary *)
(* computed by main.                                                       *)
(*                                                                         *)
(* Timestamps and durations are integers (ticks of one common unit).       *)
(* Measurement values are integers in hundredths: 4.0 is 400, 7.35 is 735. *)
(* An unbound or None Python variable is the empty tuple, a bound one a    *)
(* one-element tuple.                                                      *)
(***************************************************************************)
EXTENDS Integers, Sequences, FiniteSets

VARIABLES
    \* arguments of identify_acidosis_episodes
    bp, vadrugs, lactate_items, ph_items, min_duration,
    \* locals of identify_acidosis_episodes
    pc, groups, subject_id, data, idx, is_abnormal, episodes, start, end,
    subject_drugs, ep, candidates,
    \* per subject: the sorted stream that was scanned and the episodes kept
    scanned, retained,
    \* evaluate_against_diagnosis and main
    subjects, diagnoses_icd, icd_code, copy_on_write, queries, diag_df,
    all_df, result, summary

idVars == <<bp, vadrugs, lactate_items, ph_items, min_duration>>
scanVars == <<pc, groups, subject_id, data, idx, is_abnormal, episodes, start,
              end, subject_drugs, ep, candidates, scanned, retained>>
evalVars == <<subjects, diagnoses_icd, icd_code, copy_on_write, queries,
              diag_df, all_df, result, summary>>
vars == <<idVars, scanVars, evalVars>>

----------------------------------------------------------------------------
\* Bounds of the model.

\* timestamps of a single subject's stream are 0..MaxTime
MaxTime == 2
\* records of the single subject's stream
MaxStream == 4
\* min_duration of the single subject's scan is 0..MaxMinDuration
MaxMinDuration == 2
\* rows of the lab event table of the cohort
MaxRows == 2
\* rows of the medication table of the cohort
MaxMeds == 1
\* item identifiers of the classification are 1..MaxItem
MaxItem == 3
\* length of the subjects argument of evaluate_against_diagnosis
MaxCandidates == 3
\* rows of the diagnoses_icd table
MaxDiagnoses == 2

\* thresholds of the classification (lines 155, 156), in hundredths
LactateThreshold == 400
PhThreshold == 735

Times == 0..MaxTime
MinDurations == 0..MaxMinDuration
ItemIds == 1..MaxItem
\* the subjects, timestamps and durations the cohort's tables are drawn from
SubjectIds == {1, 2}
CohortTimes == {0, 1, 2}
CohortDurations == {1, 2}
\* the subjects and codes the evaluation's tables are drawn from
CandidateIds == {1, 2, 3}
IcdCodes == {"E872", "I10"}
\* measurement values around the two thresholds
Values == {LactateThreshold - 1, LactateThreshold, LactateThreshold + 1,
           PhThreshold - 1, PhThreshold, PhThreshold + 1}
NoneT == <<>>
Some(x) == <<x>>

SeqsUpTo(S, n) == UNION {[1..m -> S] : m \in 0..n}
Range(s) == {s[i] : i \in 1..Len(s)}
RemoveAt(s, i) == SubSeq(s, 1, i - 1) \o SubSeq(s, i + 1, Len(s))

----------------------------------------------------------------------------
\* identify_acidosis_episodes

\* the keys bp.groupby('subject_id') iterates over: ascending, each once
RECURSIVE Ascending(_)
Ascending(S) ==
    IF S = {} THEN <<>>
    ELSE LET m == CHOOSE x \in S : \A y \in S : x <= y
         IN <<m>> \o Ascending(S \ {m})

GroupKeys(rows) == Ascending({rows[i].subject_id : i \in 1..Len(rows)})

\* the rows of one group, in the order of the table
GroupOf(rows, s) == SelectSeq(rows, LAMBDA r : r.subject_id = s)

\* the group left in the order of the table
Unsorted(rows) == {rows}

\* data.sort_values('charttime'): the default sort kind is not stable, so
\* rows with equal charttime may come out in any order
RECURSIVE SortValues(_)
SortValues(rows) ==
    IF rows = <<>> THEN {<<>>}
    ELSE UNION {
           {<<rows[i]>> \o t : t \in SortValues(RemoveAt(rows, i))} :
           i \in {i \in 1..Len(rows) :
                    \A j \in 1..Len(rows) : rows[i].charttime <= rows[j].charttime}}

\* the lactate test with >= for >
IsAbnormalInclusive(itemid, value, lactate, ph) ==
    \/ (itemid \in lactate /\ value >= LactateThreshold)
    \/ (itemid \in ph /\ value <= PhThreshold)

\* lines 154-157
IsAbnormal(itemid, value, lactate, ph) ==
    \/ (itemid \in lactate /\ value > LactateThreshold)
    \/ (itemid \in ph /\ value <= PhThreshold)

\* the duration test with > for >=
LongerThan(s, e, m) == e - s > m

\* the duration test left out
AnyDuration(s, e, m) == TRUE

\* line 164
LongEnough(s, e, m) == e - s >= m

\* the window test with its bounds included
MedsInClosedWindow(drugs, s, e) ==
    \E i \in 1..Len(drugs) :
        drugs[i].scheduletime >= s /\ drugs[i].scheduletime <= e

\* lines 169-173: some row of subject_drugs lies in the window
MedsInWindow(drugs, s, e) ==
    \E i \in 1..Len(drugs) :
        drugs[i].scheduletime > s /\ drugs[i].scheduletime < e

\* the next group without line 150: the run marker of the previous subject
\* is kept
GroupNextKeepsStart ==
    /\ pc = "group"
    /\ groups # <<>>
    /\ subject_id' = Head(groups)
    /\ groups' = Tail(groups)
    /\ data' \in SortValues(GroupOf(bp, Head(groups)))
    /\ episodes' = <<>>
    /\ idx' = 1
    /\ pc' = "scan"
    /\ UNCHANGED <<idVars, evalVars, is_abnormal, start, end, subject_drugs,
                   ep, candidates, scanned, retained>>

\* lines 147-150: the next group, sorted, with a fresh episode list and no run
GroupNext ==
    /\ pc = "group"
    /\ groups # <<>>
    /\ subject_id' = Head(groups)
    /\ groups' = Tail(groups)
    /\ data' \in SortValues(GroupOf(bp, Head(groups)))
    /\ episodes' = <<>>
    /\ start' = NoneT
    /\ idx' = 1
    /\ pc' = "scan"
    /\ UNCHANGED <<idVars, evalVars, is_abnormal, end, subject_drugs, ep,
                   candidates, scanned, retained>>

\* lines 151-166: one record of the scan
ScanRecord ==
    /\ pc = "scan"
    /\ idx <= Len(data)
    /\ LET record == data[idx]
           abnormal == IsAbnormal(record.itemid, record.measure_value,
                                  lactate_items, ph_items)
       IN /\ is_abnormal' = abnormal
          /\ IF abnormal
             THEN /\ start' = IF start = NoneT THEN Some(record.charttime)
                              ELSE start
                  /\ UNCHANGED <<end, episodes>>
             ELSE IF start # NoneT
                  THEN /\ end' = Some(record.charttime)
                       /\ episodes' =
                            IF LongEnough(start[1], record.charttime, min_duration)
                            THEN Append(episodes, <<start[1], record.charttime>>)
                            ELSE episodes
                       /\ start' = NoneT
                  ELSE UNCHANGED <<start, end, episodes>>
    /\ idx' = idx + 1
    /\ UNCHANGED <<idVars, evalVars, pc, groups, subject_id, data,
                   subject_drugs, ep, candidates, scanned, retained>>

\* the end of the scan with a run still open emitted as an episode
ScanEndFlushes ==
    /\ pc = "scan"
    /\ idx > Len(data)
    /\ episodes' =
         IF start # NoneT /\ data # <<>>
            /\ LongEnough(start[1], data[Len(data)].charttime, min_duration)
         THEN Append(episodes, <<start[1], data[Len(data)].charttime>>)
         ELSE episodes
    /\ subject_drugs' = SelectSeq(vadrugs, LAMBDA r : r.subject_id = subject_id)
    /\ ep' = 1
    /\ pc' = "meds"
    /\ scanned' = [scanned EXCEPT ![subject_id] = data]
    /\ retained' = [retained EXCEPT ![subject_id] = episodes']
    /\ UNCHANGED <<idVars, evalVars, groups, subject_id, data, idx,
                   is_abnormal, start, end, candidates>>

\* line 151 exhausted, line 167: the subject's medication rows
ScanEnd ==
    /\ pc = "scan"
    /\ idx > Len(data)
    /\ subject_drugs' = SelectSeq(vadrugs, LAMBDA r : r.subject_id = subject_id)
    /\ ep' = 1
    /\ pc' = "meds"
    /\ scanned' = [scanned EXCEPT ![subject_id] = data]
    /\ retained' = [retained EXCEPT ![subject_id] = episodes]
    /\ UNCHANGED <<idVars, evalVars, groups, subject_id, data, idx,
                   is_abnormal, episodes, start, end, candidates>>

\* lines 168-175: one episode of the medication loop; start and end are
\* rebound to the episode, and the first match ends the loop
MedStep ==
    /\ pc = "meds"
    /\ ep <= Len(episodes)
    /\ start' = Some(episodes[ep][1])
    /\ end' = Some(episodes[ep][2])
    /\ IF MedsInWindow(subject_drugs, episodes[ep][1], episodes[ep][2])
       THEN /\ candidates' = Append(candidates, subject_id)
            /\ pc' = "group"
            /\ UNCHANGED ep
       ELSE /\ ep' = ep + 1
            /\ UNCHANGED <<candidates, pc>>
    /\ UNCHANGED <<idVars, evalVars, groups, subject_id, data, idx,
                   is_abnormal, episodes, subject_drugs, scanned, retained>>

\* line 168 exhausted without a match
MedEnd ==
    /\ pc = "meds"
    /\ ep > Len(episodes)
    /\ pc' = "group"
    /\ UNCHANGED <<idVars, evalVars, groups, subject_id, data, idx,
                   is_abnormal, episodes, start, end, subject_drugs, ep,
                   candidates, scanned, retained>>

\* line 176
Return ==
    /\ pc = "group"
    /\ groups = <<>>
    /\ pc' = "done"
    /\ UNCHANGED <<idVars, evalVars, groups, subject_id, data, idx,
                   is_abnormal, episodes, start, end, subject_drugs, ep,
                   candidates, scanned, retained>>

\* the streams are drawn from two readings: a lactate item (item 1) at
\* exactly 4.0 and a blood pH item (item 2) at exactly 7.35
LabKinds == {<<1, LactateThreshold>>, <<2, PhThreshold>>}
LabRows(S, T) ==
    {[subject_id |-> s, charttime |-> t, itemid |-> k[1], measure_value |-> k[2]] :
        s \in S, t \in T, k \in LabKinds}
MedRows(S, T) == [subject_id : S, scheduletime : T]

----------------------------------------------------------------------------
\* evaluate_against_diagnosis and the summary of main

\* line 196: icd_code LIKE '<pattern>'; the pattern holds no wildcard, so it
\* matches the equal code only
Like(code, pattern) == code = pattern

\* lines 193-198: the rows the diagnosis query returns
DiagQuery(table, subjs, pattern) ==
    SelectSeq(table, LAMBDA r : r.subject_id \in Range(subjs)
                                /\ Like(r.icd_code, pattern))

\* line 199
MarkHasCode(rows) ==
    [i \in 1..Len(rows) |-> [subject_id |-> rows[i].subject_id, has_code |-> "True"]]

\* line 200: list(set(subjects)), each distinct subject once, in the set's
\* iteration order
RECURSIVE Orderings(_)
Orderings(S) ==
    IF S = {} THEN {<<>>}
    ELSE UNION {{<<x>> \o t : t \in Orderings(S \ {x})} : x \in S}

\* line 201: all_df.merge(diag_df[['subject_id', 'has_code']], how='left',
\* on='subject_id'): one row per matching right row, and one row with a
\* missing has_code for a left key without a match
RECURSIVE LeftMerge(_, _)
LeftMerge(left, right) ==
    IF left = <<>> THEN <<>>
    ELSE LET s == Head(left)
             matches == SelectSeq(right, LAMBDA r : r.subject_id = s)
             rows == IF matches = <<>>
                     THEN <<[subject_id |-> s, has_code |-> "NaN"]>>
                     ELSE [i \in 1..Len(matches) |->
                             [subject_id |-> s, has_code |-> matches[i].has_code]]
         IN rows \o LeftMerge(Tail(left), right)

\* line 202, where the fill reaches the frame
FillNa(rows) ==
    [i \in 1..Len(rows) |->
        IF rows[i].has_code = "NaN"
        THEN [subject_id |-> rows[i].subject_id, has_code |-> "False"]
        ELSE rows[i]]

\* line 233: results['has_code'].sum() counts the True rows
RECURSIVE NumWithCode(_)
NumWithCode(rows) ==
    IF rows = <<>> THEN 0
    ELSE (IF Head(rows).has_code = "True" THEN 1 ELSE 0) + NumWithCode(Tail(rows))

\* line 234 as line 237 prints it: the percentage in hundredths, rounded
Accuracy(num, total) ==
    IF total > 0 THEN (2 * num * 10000 + total) \div (2 * total) ELSE 0

\* the call without lines 190-191: the query is issued for no subjects
EvalEmptyQueries ==
    /\ pc = "eval"
    /\ subjects = <<>>
    /\ queries' = queries + 1
    /\ diag_df' = DiagQuery(diagnoses_icd, subjects, icd_code)
    /\ pc' = "merge"
    /\ UNCHANGED <<idVars, groups, subject_id, data, idx, is_abnormal,
                   episodes, start, end, subject_drugs, ep, candidates,
                   scanned, retained, subjects, diagnoses_icd, icd_code,
                   copy_on_write, all_df, result, summary>>

\* lines 190-191: no subjects, an empty frame, no query
EvalEmpty ==
    /\ pc = "eval"
    /\ subjects = <<>>
    /\ result' = <<>>
    /\ pc' = "summary"
    /\ UNCHANGED <<idVars, groups, subject_id, data, idx, is_abnormal,
                   episodes, start, end, subject_drugs, ep, candidates,
                   scanned, retained, subjects, diagnoses_icd, icd_code,
                   copy_on_write, queries, diag_df, all_df, summary>>

\* lines 192-198
EvalQuery ==
    /\ pc = "eval"
    /\ subjects # <<>>
    /\ queries' = queries + 1
    /\ diag_df' = DiagQuery(diagnoses_icd, subjects, icd_code)
    /\ pc' = "merge"
    /\ UNCHANGED <<idVars, groups, subject_id, data, idx, is_abnormal,
                   episodes, start, end, subject_drugs, ep, candidates,
                   scanned, retained, subjects, diagnoses_icd, icd_code,
                   copy_on_write, all_df, result, summary>>

\* lines 199-201
EvalMerge ==
    /\ pc = "merge"
    /\ diag_df' = MarkHasCode(diag_df)
    /\ all_df' \in Orderings(Range(subjects))
    /\ result' = LeftMerge(all_df', diag_df')
    /\ pc' = "fill"
    /\ UNCHANGED <<idVars, groups, subject_id, data, idx, is_abnormal,
                   episodes, start, end, subject_drugs, ep, candidates,
                   scanned, retained, subjects, diagnoses_icd, icd_code,
                   copy_on_write, queries, summary>>

\* lines 202-203: result['has_code'].fillna(False, inplace=True) fills the
\* column of result only where pandas hands out the column itself; under
\* copy-on-write (the only mode from pandas 3.0 on) it fills a temporary
\* copy and result keeps its missing values
EvalFill ==
    /\ pc = "fill"
    /\ result' = IF copy_on_write THEN result ELSE FillNa(result)
    /\ pc' = "summary"
    /\ UNCHANGED <<idVars, groups, subject_id, data, idx, is_abnormal,
                   episodes, start, end, subject_drugs, ep, candidates,
                   scanned, retained, subjects, diagnoses_icd, icd_code,
                   copy_on_write, queries, diag_df, all_df, summary>>

\* lines 232-234
MainSummary ==
    /\ pc = "summary"
    /\ LET total_subjects == Len(result)
           num_with_code == NumWithCode(result)
       IN summary' = Some([total_subjects |-> total_subjects,
                           num_with_code |-> num_with_code,
                           accuracy |-> Accuracy(num_with_code, total_subjects)])
    /\ pc' = "exit"
    /\ UNCHANGED <<idVars, groups, subject_id, data, idx, is_abnormal,
                   episodes, start, end, subject_drugs, ep, candidates,
                   scanned, retained, subjects, diagnoses_icd, icd_code,
                   copy_on_write, queries, diag_df, all_df, result>>

DiagRows == [subject_id : CandidateIds, icd_code : IcdCodes]

----------------------------------------------------------------------------
\* Initial states and specifications

EvalIdle ==
    /\ subjects = <<>>
    /\ diagnoses_icd = <<>>
    /\ icd_code = "E872"
    /\ copy_on_write = FALSE
    /\ queries = 0
    /\ diag_df = <<>>
    /\ all_df = <<>>
    /\ result = <<>>
    /\ summary = NoneT

ScanAt(p) ==
    /\ pc = p
    /\ groups = GroupKeys(bp)
    /\ subject_id = 0
    /\ data = <<>>
    /\ idx = 1
    /\ is_abnormal = FALSE
    /\ episodes = <<>>
    /\ start = NoneT
    /\ end = NoneT
    /\ subject_drugs = <<>>
    /\ ep = 1
    /\ candidates = <<>>
    /\ scanned = [s \in SubjectIds |-> <<>>]
    /\ retained = [s \in SubjectIds |-> <<>>]

ScanInit == ScanAt("group")

\* the cohort: several subjects, lab events and medications
Init ==
    /\ bp \in SeqsUpTo(LabRows(SubjectIds, CohortTimes), MaxRows)
    /\ vadrugs \in SeqsUpTo(MedRows(SubjectIds, CohortTimes), MaxMeds)
    /\ lactate_items = {1}
    /\ ph_items = {2}
    /\ min_duration \in CohortDurations
    /\ ScanInit
    /\ EvalIdle

Next == GroupNext \/ ScanRecord \/ ScanEnd \/ MedStep \/ MedEnd \/ Return

Spec == Init /\ [][Next]_vars

\* one subject's stream, scanned up to line 167
InitSegment ==
    /\ bp \in SeqsUpTo(LabRows({1}, Times), MaxStream)
    /\ vadrugs = <<>>
    /\ lactate_items = {1}
    /\ ph_items = {2}
    /\ min_duration \in MinDurations
    /\ ScanInit
    /\ EvalIdle

NextSegment == GroupNext \/ ScanRecord \/ ScanEnd

SpecSegment == InitSegment /\ [][NextSegment]_vars

\* one record of any item and value, under any pair of reference item sets
InitClassify ==
    /\ bp \in {<<[subject_id |-> 1, charttime |-> 0, itemid |-> i,
                   measure_value |-> v]>> : i \in ItemIds, v \in Values}
    /\ vadrugs = <<>>
    /\ lactate_items \in SUBSET ItemIds
    /\ ph_items \in SUBSET ItemIds
    /\ min_duration = 0
    /\ ScanInit
    /\ EvalIdle

SpecClassify == InitClassify /\ [][NextSegment]_vars

\* evaluate_against_diagnosis called by main (lines 231-234) with any list
\* of subjects, any diagnoses table and either pandas mode
InitEvaluate ==
    /\ bp = <<>>
    /\ vadrugs = <<>>
    /\ lactate_items = {1}
    /\ ph_items = {2}
    /\ min_duration = 0
    /\ ScanAt("eval")
    /\ subjects \in SeqsUpTo(CandidateIds, MaxCandidates)
    /\ diagnoses_icd \in SeqsUpTo(DiagRows, MaxDiagnoses)
    /\ icd_code = "E872"
    /\ copy_on_write \in BOOLEAN
    /\ queries = 0
    /\ diag_df = <<>>
    /\ all_df = <<>>
    /\ result = <<>>
    /\ summary = NoneT

NextEvaluate == EvalEmpty \/ EvalQuery \/ EvalMerge \/ EvalFill \/ MainSummary

SpecEvaluate == InitEvaluate /\ [][NextEvaluate]_vars

----------------------------------------------------------------------------
\* What the scan is expected to produce, stated over the whole stream

Abn(d, i) == IsAbnormal(d[i].itemid, d[i].measure_value, lactate_items, ph_items)

\* first records of the maximal contiguous runs of abnormal records
RunStarts(d) == {i \in 1..Len(d) : Abn(d, i) /\ (i = 1 \/ ~Abn(d, i - 1))}

\* the normal records after record i
Closers(d, i) == {j \in (i + 1)..Len(d) : ~Abn(d, j)}

\* the first normal record after record i
RunEnd(d, i) == CHOOSE j \in Closers(d, i) : \A k \in Closers(d, i) : j <= k

\* the runs closed by a normal record
ClosedRuns(d) == {i \in RunStarts(d) : Closers(d, i) # {}}

Duration(d, i) == d[RunEnd(d, i)].charttime - d[i].charttime

KeptRuns(d, m) == {i \in ClosedRuns(d) : Duration(d, i) >= m}

Nth(S, k) == CHOOSE x \in S : Cardinality({y \in S : y < x}) = k - 1

ExpectedEpisodes(d, m) ==
    [k \in 1..Cardinality(KeptRuns(d, m)) |->
        LET i == Nth(KeptRuns(d, m), k)
        IN <<d[i].charttime, d[RunEnd(d, i)].charttime>>]

\* first record of the run of abnormal records that ends the stream
FinalRun(d) ==
    CHOOSE i \in 1..Len(d) :
        /\ \A j \in i..Len(d) : Abn(d, j)
        /\ (i = 1 \/ ~Abn(d, i - 1))

Flagged(s) == \E i \in 1..Len(candidates) : candidates[i] = s

----------------------------------------------------------------------------
\* Claims

\* C1: after every scanned prefix of a subject's time-ordered stream, and so
\* at the end of the scan, the episode list is exactly the list, in stream
\* order, of the pairs (start, end) with start the timestamp of the first
\* record of a maximal run of abnormal records, end the timestamp of the
\* first normal record after it, and end - start >= min_duration.
EpisodesAreTheKeptRuns ==
    pc \in {"scan", "meds"} =>
        episodes = ExpectedEpisodes(SubSeq(data, 1, idx - 1), min_duration)

\* C1 witness: a finished scan that kept one run and dropped a closed run
\* that was too short
KeptAndDroppedRun ==
    /\ pc = "meds"
    /\ Len(episodes) >= 1
    /\ \E i \in ClosedRuns(data) : Duration(data, i) < min_duration

\* C2: every episode in a subject's episode list lasts at least min_duration.
EpisodesLastMinDuration ==
    \A k \in 1..Len(episodes) : episodes[k][2] - episodes[k][1] >= min_duration

\* C2 witness: a run closed after 1 tick under a min_duration of 2 ticks has
\* left the episode list empty
ShortRunDropped ==
    /\ pc = "meds"
    /\ min_duration = 2
    /\ \E i \in ClosedRuns(data) : Duration(data, i) = 1
    /\ episodes = <<>>

\* C3: when a subject's stream ends in an abnormal record, the scan ends with
\* that run still open and the episode list is the one of the stream cut
\* before the run's first record: the open run adds no episode.
OpenRunDiscarded ==
    (pc = "meds" /\ data # <<>> /\ Abn(data, Len(data))) =>
        /\ start = Some(data[FinalRun(data)].charttime)
        /\ episodes = ExpectedEpisodes(SubSeq(data, 1, FinalRun(data) - 1),
                                       min_duration)

\* C3 witness: the stream ended in an open run that had lasted min_duration
LongOpenRunAtEnd ==
    /\ pc = "meds"
    /\ data # <<>>
    /\ Abn(data, Len(data))
    /\ min_duration >= 1
    /\ data[Len(data)].charttime - data[FinalRun(data)].charttime >= min_duration

\* C4, as claimed: each episode's end strictly precedes the next episode's
\* start.
EpisodesStrictlySeparated ==
    \A k \in 1..(Len(episodes) - 1) : episodes[k][2] < episodes[k + 1][1]

\* C4, amended: each episode starts no later than it ends, and ends no later
\* than the next episode starts.
EpisodesOrdered ==
    /\ \A k \in 1..Len(episodes) : episodes[k][1] <= episodes[k][2]
    /\ \A k \in 1..(Len(episodes) - 1) : episodes[k][2] <= episodes[k + 1][1]

\* C4 witness: two episodes of at least one tick, the second starting at the
\* timestamp the first ends at
EpisodesTouch ==
    /\ min_duration >= 1
    /\ \E k \in 1..(Len(episodes) - 1) : episodes[k][2] = episodes[k + 1][1]

\* C5: a subject is in the returned list iff one of its retained episodes
\* has one of its medication administrations strictly inside.
FlaggedIffMedicationInside ==
    pc = "done" =>
        \A s \in SubjectIds :
            Flagged(s) <=>
                \E k \in 1..Len(retained[s]), j \in 1..Len(vadrugs) :
                    /\ vadrugs[j].subject_id = s
                    /\ retained[s][k][1] < vadrugs[j].scheduletime
                    /\ vadrugs[j].scheduletime < retained[s][k][2]

\* C5 witness: a subject was returned
SubjectFlagged ==
    /\ pc = "done"
    /\ candidates # <<>>

\* C8: the record is abnormal iff its item is a lactate item and its value is
\* above 4.0, or its item is a pH item and its value is at most 7.35; 4.0 on
\* an item that is only a lactate item is normal, 7.35 on a pH item is
\* abnormal, an item in neither set is normal, an item in both sets is
\* abnormal when either test holds.
ClassifiedByThresholds ==
    (pc \in {"scan", "meds"} /\ idx = 2) =>
        LET v == data[1].measure_value
            inL == data[1].itemid \in lactate_items
            inP == data[1].itemid \in ph_items
        IN /\ is_abnormal <=> ((inL /\ v > 400) \/ (inP /\ v <= 735))
           /\ (inL /\ ~inP /\ v = 400) => ~is_abnormal
           /\ (inP /\ v = 735) => is_abnormal
           /\ (~inL /\ ~inP) => ~is_abnormal
           /\ (inL /\ inP /\ (v > 400 \/ v <= 735)) => is_abnormal

\* C8 witness: a lactate reading of exactly 4.0 was classified normal
LactateAtThresholdNormal ==
    /\ pc = "meds"
    /\ data[1].itemid \in lactate_items \ ph_items
    /\ data[1].measure_value = 400
    /\ ~is_abnormal

\* C6, as claimed: the returned table has exactly one row per distinct
\* candidate subject.
OneRowPerCandidate ==
    pc \in {"summary", "exit"} =>
        /\ Len(result) = Cardinality(Range(subjects))
        /\ {result[i].subject_id : i \in 1..Len(result)} = Range(subjects)

\* the subjects the diagnosis query finds
Lookup ==
    {diagnoses_icd[i].subject_id :
        i \in {j \in 1..Len(diagnoses_icd) :
                 /\ diagnoses_icd[j].subject_id \in Range(subjects)
                 /\ diagnoses_icd[j].icd_code = icd_code}}

\* C7, as claimed: in the returned table has_code is true for the subjects
\* the lookup holds and false, not missing, for every other one.
HasCodeTrueOrFalse ==
    pc \in {"summary", "exit"} =>
        \A i \in 1..Len(result) :
            result[i].has_code =
                IF result[i].subject_id \in Lookup THEN "True" ELSE "False"

\* C9: with no candidate subjects the result is empty, no query is issued,
\* the call goes from its entry straight to its return, and the summary
\* holds 0 subjects, 0 with the code and a percentage of 0.
EmptyCohortNoQuery ==
    subjects = <<>> =>
        /\ queries = 0
        /\ result = <<>>
        /\ pc \in {"eval", "summary", "exit"}
        /\ pc = "exit" =>
             summary = Some([total_subjects |-> 0, num_with_code |-> 0,
                             accuracy |-> 0])

\* C9 witness: the summary of an empty cohort over a diagnoses table that
\* holds matching rows
EmptyCohortSummarised ==
    /\ pc = "exit"
    /\ subjects = <<>>
    /\ \E i \in 1..Len(diagnoses_icd) : diagnoses_icd[i].icd_code = icd_code

\* the medication times of subject s
MedTimes(s) ==
    {vadrugs[j].scheduletime :
        j \in {i \in 1..Len(vadrugs) : vadrugs[i].subject_id = s}}

\* d holds the rows of subject s, each as often as the table does, by time
OwnStream(d, s) ==
    /\ Len(d) = Len(GroupOf(bp, s))
    /\ \A r \in Range(d) \cup Range(GroupOf(bp, s)) :
           Cardinality({i \in 1..Len(d) : d[i] = r})
             = Cardinality({i \in 1..Len(bp) : bp[i] = r})
    /\ \A i \in 1..(Len(d) - 1) : d[i].charttime <= d[i + 1].charttime

\* the verdict on a stream and a set of medication times, by themselves
OwnVerdict(d, meds) ==
    \E k \in 1..Len(ExpectedEpisodes(d, min_duration)), t \in meds :
        /\ ExpectedEpisodes(d, min_duration)[k][1] < t
        /\ t < ExpectedEpisodes(d, min_duration)[k][2]

====
